---- MODULE Spec2Model ----
(***************************************************************************)
(* Model of the inter-word pattern scanner (yhwh_between_search.py) and of *)
(* the adjacency statistics engine (yhwh_between_stats.py).                 *)
(*                                                                         *)
(* Strings are sequences of one-character strings.  Python indices are     *)
(* 0-based; a word node n (1..N, as Text-Fabric numbers its slots) is the  *)
(* token at Python index n-1, so word_nodes[idx] = idx + 1 and the feature *)
(* value of node n is cons[n].  Floats are exact rationals [num, den].     *)
(***************************************************************************)
EXTENDS Integers, Sequences, FiniteSets, TLC

\* ---------------------------------------------------------------- bounds
MaxN == 3
MaxTokLen == 2
MaxPrefixLen == 3
MaxSuffixLen == 1
MaxWordLen == 3
MaxLoadN == 1
MaxFragLen == 1

\* ------------------------------------------------------------- alphabets
\* "a": an ordinary consonant; "B": a final-form letter whose base form is
\* "b"; "^": a combining mark (Unicode category Mn); "-": the maqaf.
Letters == {"a", "B"}
Mark == "^"
Maqaf == "-"
PointedAlphabet == Letters \cup {Mark}

StringsUpTo(A, n) == UNION {[1..k -> A] : k \in 0..n}

\* ------------------------------------------------------ string primitives
startswith(s, p) == Len(p) <= Len(s) /\ SubSeq(s, 1, Len(p)) = p

endswith(s, p) == Len(p) <= Len(s) /\ SubSeq(s, Len(s) - Len(p) + 1, Len(s)) = p

\* mutant: the consumed token is not cut off the remaining target
SliceFromKeepsAll(s, n) == s

\* where a slice bound n lands in a string of length len (negative bounds
\* count from the end, all bounds are clamped)
SliceBound(len, n) ==
    IF n < 0 THEN (IF len + n < 0 THEN 0 ELSE len + n)
    ELSE IF n > len THEN len ELSE n

\* s[n:] of Python
SliceFrom(s, n) == SubSeq(s, SliceBound(Len(s), n) + 1, Len(s))

\* s[:n] of Python
SliceTo(s, n) == SubSeq(s, 1, SliceBound(Len(s), n))

RECURSIVE Filter(_, _)
Filter(s, keep) ==
    IF s = <<>> THEN <<>>
    ELSE IF Head(s) \in keep THEN <<Head(s)>> \o Filter(Tail(s), keep)
    ELSE Filter(Tail(s), keep)

\* ------------------------------------------------------------ normaliser
FINAL_FORM_TRANSLATION(ch) == IF ch = "B" THEN "b" ELSE ch

category(ch) == IF ch = Mark THEN "Mn" ELSE IF ch = Maqaf THEN "Pd" ELSE "Lo"

normalize_for_match(text) ==
    IF text = <<>> THEN <<>>
    ELSE LET stripped == Filter(text, {ch \in {"a", "b", "B", Mark, Maqaf} : category(ch) # "Mn"})
         IN [i \in 1..Len(stripped) |-> FINAL_FORM_TRANSLATION(stripped[i])]

strip_diacritics(text) ==
    normalize_for_match(Filter(text, {"a", "b", "B", Mark}))

\* ------------------------------------------------------------ input sets
\* consonantal texts, and one text that is nothing but a mark
ConsTexts == StringsUpTo(Letters, MaxTokLen) \cup {<<Mark>>}
Corpora == UNION {[1..n -> ConsTexts] : n \in 0..MaxN}
NormAlphabet == {FINAL_FORM_TRANSLATION(ch) : ch \in Letters}
PrefixTargets == StringsUpTo(NormAlphabet, MaxPrefixLen)
SuffixTargets == StringsUpTo(NormAlphabet, MaxSuffixLen)

\* ------------------------------------------- scanner: second_span_nodes
\* Optional[Tuple[int, ...]]: found = a tuple is returned, nodes = the tuple.
\* reads = the Python indices at which word_nodes was subscripted; raised =
\* an IndexError left the function.
NoSpan(reads) == [found |-> FALSE, nodes |-> <<>>, reads |-> reads, raised |-> FALSE]

\* mutant: the loop stops before the last token
SpanLoopGuardShort(idx, total_words, remaining) ==
    idx < total_words - 1 /\ remaining # <<>>

\* mutant: the loop runs one index past the last token
SpanLoopGuardInclusive(idx, total_words, remaining) ==
    idx <= total_words /\ remaining # <<>>

SpanLoopGuard(idx, total_words, remaining) == idx < total_words /\ remaining # <<>>

RECURSIVE span_loop(_, _, _, _, _)
span_loop(cons, idx, remaining, nodes, reads) ==
    IF SpanLoopGuard(idx, Len(cons), remaining) THEN
        IF idx \notin 0..(Len(cons) - 1)
        THEN [found |-> FALSE, nodes |-> <<>>, reads |-> reads \cup {idx}, raised |-> TRUE]
        ELSE LET node == idx + 1
                 norm == normalize_for_match(cons[node])
                 seen == reads \cup {idx}
             IN  IF norm = <<>> THEN NoSpan(seen)
                 ELSE IF startswith(norm, remaining)
                 THEN [found |-> TRUE, nodes |-> Append(nodes, node),
                       reads |-> seen, raised |-> FALSE]
                 ELSE IF startswith(remaining, norm)
                 THEN span_loop(cons, idx + 1, SliceFrom(remaining, Len(norm)),
                                Append(nodes, node), seen)
                 ELSE NoSpan(seen)
    ELSE IF remaining = <<>>
         THEN [found |-> TRUE, nodes |-> nodes, reads |-> reads, raised |-> FALSE]
         ELSE NoSpan(reads)

EmptyPrefixSpan == NoSpan({})

second_span_nodes(cons, start_index, prefix) ==
    IF prefix = <<>> THEN EmptyPrefixSpan
    ELSE span_loop(cons, start_index, prefix, <<>>, {})

\* ------------------------------------------------- statistics: the flags
_suffix_flags(words, suffix_target) ==
    IF suffix_target = <<>> THEN [i \in 1..Len(words) |-> TRUE]
    ELSE [i \in 1..Len(words) |-> endswith(words[i], suffix_target)]

FlagLoopGuard(idx, total, remaining) == idx < total /\ remaining # <<>>

\* mutant: a partly consumed target counts as matched
FlagExitMatchedOnly(remaining, matched, reads) ==
    [flag |-> matched, reads |-> reads, raised |-> FALSE]

FlagExit(remaining, matched, reads) ==
    [flag |-> (remaining = <<>> /\ matched), reads |-> reads, raised |-> FALSE]

RECURSIVE flag_loop(_, _, _, _, _)
flag_loop(words, idx, remaining, matched, reads) ==
    IF FlagLoopGuard(idx, Len(words), remaining) THEN
        IF idx \notin 0..(Len(words) - 1)
        THEN [flag |-> FALSE, reads |-> reads \cup {idx}, raised |-> TRUE]
        ELSE LET segment == words[idx + 1]
                 seen == reads \cup {idx}
             IN  IF segment = <<>> THEN FlagExit(remaining, matched, seen)
                 ELSE IF startswith(segment, remaining) THEN FlagExit(<<>>, TRUE, seen)
                 ELSE IF startswith(remaining, segment)
                 THEN flag_loop(words, idx + 1, SliceFrom(remaining, Len(segment)),
                                TRUE, seen)
                 ELSE FlagExit(remaining, matched, seen)
    ELSE FlagExit(remaining, matched, reads)

\* one pass of the "for start in range(total)" body
prefix_attempt(words, start, prefix_target) ==
    flag_loop(words, start, prefix_target, FALSE, {})

\* mutant: an empty prefix target flags every position
EmptyPrefixFlagTrivial == TRUE

EmptyPrefixFlag == FALSE

\* mutant: an empty segment ends the whole flag computation, not one attempt
PrefixFlagsAbortOnEmpty(words, prefix_target) ==
    [i \in 1..Len(words) |->
        /\ prefix_target # <<>>
        /\ prefix_attempt(words, i - 1, prefix_target).flag
        /\ \A j \in 1..i :
              \A r \in prefix_attempt(words, j - 1, prefix_target).reads :
                  words[r + 1] # <<>>]

\* flags[s + 1] is Python's flags[s]
_prefix_flags(words, prefix_target) ==
    IF prefix_target = <<>> THEN [i \in 1..Len(words) |-> EmptyPrefixFlag]
    ELSE [i \in 1..Len(words) |-> prefix_attempt(words, i - 1, prefix_target).flag]

\* ------------------------------------------------- statistics: the record
Rat(n, d) == [num |-> n, den |-> d]
RatMul(x, y) == Rat(x.num * y.num, x.den * y.den)
RatEq(x, y) == x.num * y.den = y.num * x.den
RatTruthy(x) == x.num # 0

\* math.inf is [inf |-> TRUE]; a finite ratio carries its fraction
Infinity == [inf |-> TRUE, num |-> 0, den |-> 1]
Finite(n, d) == [inf |-> FALSE, num |-> n, den |-> d]

CountTrue(flags) == Cardinality({i \in DOMAIN flags : flags[i]})

\* "1.0", "0.0": the literal returns; "tail": min(1.0, tail) of the series
_poisson_tail(observed, lam) ==
    IF lam.num <= 0 THEN (IF observed > 0 THEN "0.0" ELSE "1.0")
    ELSE IF observed <= 0 THEN "1.0"
    ELSE "tail"

\* mutant: the empty scope reports ratio 0.0 and p-value 0.0
EmptyScopeZeroRatio(scope) ==
    [scope |-> scope, total_words |-> 0, suffix_count |-> 0, prefix_count |-> 0,
     expected_adjacent |-> Rat(0, 1), observed_adjacent |-> 0,
     suffix_percent |-> Rat(0, 1), prefix_percent |-> Rat(0, 1),
     ratio |-> Finite(0, 1), p_value |-> "0.0"]

EmptyScopeStats(scope) ==
    [scope |-> scope, total_words |-> 0, suffix_count |-> 0, prefix_count |-> 0,
     expected_adjacent |-> Rat(0, 1), observed_adjacent |-> 0,
     suffix_percent |-> Rat(0, 1), prefix_percent |-> Rat(0, 1),
     ratio |-> Infinity, p_value |-> "1.0"]

\* mutant: the last adjacent pair is not counted
AdjacentRangeShort(total_words) == 0..(total_words - 3)

AdjacentRange(total_words) == 0..(total_words - 2)

\* mutant: N - 2 pairs instead of N - 1
ExpectedAdjacentShort(total_words, probability_suffix, probability_prefix) ==
    RatMul(RatMul(Rat(total_words - 2, 1), probability_suffix), probability_prefix)

\* mutant: N pairs instead of N - 1
ExpectedAdjacentAllWords(total_words, probability_suffix, probability_prefix) ==
    RatMul(RatMul(Rat(total_words, 1), probability_suffix), probability_prefix)

ExpectedAdjacent(total_words, probability_suffix, probability_prefix) ==
    RatMul(RatMul(Rat(total_words - 1, 1), probability_suffix), probability_prefix)

Ratio(observed_adjacent, expected_adjacent) ==
    IF RatTruthy(expected_adjacent)
    THEN Finite(observed_adjacent * expected_adjacent.den, expected_adjacent.num)
    ELSE Infinity

compute_pattern_stats(scope, words, suffix_target, prefix_target) ==
    LET total_words == Len(words) IN
    IF total_words = 0 THEN EmptyScopeStats(scope)
    ELSE LET sflags == _suffix_flags(words, suffix_target)
             pflags == _prefix_flags(words, prefix_target)
             suffix_count == CountTrue(sflags)
             prefix_count == CountTrue(pflags)
             probability_suffix == Rat(suffix_count, total_words)
             probability_prefix == Rat(prefix_count, total_words)
             expected_adjacent ==
                 ExpectedAdjacent(total_words, probability_suffix, probability_prefix)
             observed_adjacent ==
                 Cardinality({idx \in AdjacentRange(total_words) :
                                 sflags[idx + 1] /\ pflags[idx + 2]})
         IN  [scope |-> scope, total_words |-> total_words,
              suffix_count |-> suffix_count, prefix_count |-> prefix_count,
              expected_adjacent |-> expected_adjacent,
              observed_adjacent |-> observed_adjacent,
              suffix_percent |-> RatMul(probability_suffix, Rat(100, 1)),
              prefix_percent |-> RatMul(probability_prefix, Rat(100, 1)),
              ratio |-> Ratio(observed_adjacent, expected_adjacent),
              p_value |-> _poisson_tail(observed_adjacent, expected_adjacent)]

\* ------------------------------------------------------------------ state
VARIABLES
    cons,            \* F.g_cons_utf8.v(node) of every word node, node = index
    words,           \* the statistics engine's token texts (WordInfo.text)
    books,           \* WordInfo.book of every token
    loaded,          \* the corpus has been read
    suffix_target,   \* the normalised suffix fragment
    prefix_target,   \* the normalised prefix fragment
    pc,              \* position in the run
    idx,             \* collect_matches: the enumerate() index
    matches,         \* collect_matches: the list being built
    stats,           \* <<>> or <<PatternStats>> of the whole scope
    book_stats,      \* <<>> or <<PatternStats>> of the --book scope
    probe,           \* <<>> or <<the result of one direct matcher call>>
    args             \* the command line of the statistics program

vars == <<cons, words, books, loaded, suffix_target, prefix_target, pc, idx,
          matches, stats, book_stats, probe, args>>

NoArgs == [word |-> <<>>, suffix |-> <<>>, prefix |-> <<>>, split_index |-> <<>>]

\* ------------------------------------------------- scanner: collect_matches
total_words == Len(cons)

\* word_nodes[:-1]
ScanRange == 0..(total_words - 2)

\* the enumerate() loop has ended
ScanExhausted == idx \notin ScanRange

SuffixQualifies(first_norm) ==
    ~(suffix_target # <<>> /\ ~endswith(first_norm, suffix_target))

Max(a, b) == IF a >= b THEN a ELSE b
Min(a, b) == IF a <= b THEN a ELSE b

\* InterWordMatch: first.nodes, second.nodes and the window [context_start,
\* context_end) of the context string
BuildMatch(i, first_node, span_nodes) ==
    [first |-> <<first_node>>, second |-> span_nodes,
     context |-> <<Max(i - 3, 0), Min(i + 1 + Len(span_nodes) + 3, total_words)>>]

\* mutant: the second span is sought from the first token itself
SpanStartSame(i) == i

SpanStart(i) == i + 1

\* one iteration of "for idx, first_node in enumerate(word_nodes[:-1])"
ScanStep ==
    /\ pc = "collect_matches"
    /\ ~ScanExhausted
    /\ LET first_node == idx + 1
           first_norm == normalize_for_match(cons[first_node])
           span == second_span_nodes(cons, SpanStart(idx), prefix_target)
       IN  IF ~SuffixQualifies(first_norm) THEN UNCHANGED <<matches, pc>>
           ELSE IF span.raised THEN pc' = "IndexError" /\ UNCHANGED matches
           ELSE IF ~span.found \/ span.nodes = <<>> THEN UNCHANGED <<matches, pc>>
           ELSE /\ matches' = Append(matches, BuildMatch(idx, first_node, span.nodes))
                /\ UNCHANGED pc
    /\ idx' = idx + 1
    /\ UNCHANGED <<cons, words, books, loaded, suffix_target, prefix_target,
                   stats, book_stats, probe, args>>

\* the loop is over: return matches
ScanDone ==
    /\ pc = "collect_matches"
    /\ ScanExhausted
    /\ pc' = "compute_pattern_stats"
    /\ UNCHANGED <<cons, words, books, loaded, suffix_target, prefix_target, idx,
                   matches, stats, book_stats, probe, args>>

\* compute_pattern_stats on the same token texts
ComputeStats ==
    /\ pc = "compute_pattern_stats"
    /\ stats' = <<compute_pattern_stats("all", words, suffix_target, prefix_target)>>
    /\ pc' = "done"
    /\ UNCHANGED <<cons, words, books, loaded, suffix_target, prefix_target, idx,
                   matches, book_stats, probe, args>>

\* a direct call of the matcher at any start index 0..N
CallMatcher ==
    /\ pc = "done"
    /\ \E start \in 0..total_words :
          probe' = <<[start |-> start,
                      span |-> second_span_nodes(cons, start, prefix_target),
                      attempt |-> prefix_attempt(words, start, prefix_target)]>>
    /\ pc' = "probed"
    /\ UNCHANGED <<cons, words, books, loaded, suffix_target, prefix_target, idx,
                   matches, stats, book_stats, args>>

NormalizedTexts(c) == [i \in 1..Len(c) |-> normalize_for_match(c[i])]

Init ==
    /\ cons \in Corpora
    /\ words = NormalizedTexts(cons)
    /\ books = [i \in 1..Len(cons) |-> "Genesis"]
    /\ loaded = TRUE
    /\ suffix_target \in SuffixTargets
    /\ prefix_target \in PrefixTargets
    /\ pc = "collect_matches"
    /\ idx = 0
    /\ matches = <<>>
    /\ stats = <<>>
    /\ book_stats = <<>>
    /\ probe = <<>>
    /\ args = NoArgs

Next ==
    \/ ScanStep
    \/ ScanDone
    \/ ComputeStats
    \/ CallMatcher

Spec == Init /\ [][Next]_vars

\* ------------------------------------------ statistics program: main
\* A command-line value is a string; an option that was not given (None) and
\* an empty string behave alike ("word or ''", "if suffix_target").
\* split_index is <<>> when --split-index was not given, else <<n>>.
Raised(message) ==
    [raised |-> TRUE, error |-> message, suffix |-> <<>>, prefix |-> <<>>]

Resolved(suffix, prefix) ==
    [raised |-> FALSE, error |-> "", suffix |-> suffix, prefix |-> prefix]

\* mutant: only the upper end of the range is checked
SplitBelowLength(split_index, length) == split_index < length

SplitInRange(split_index, length) == 0 < split_index /\ split_index < length

DefaultSplit(length) ==
    Max(1, Min(length - 1, IF length \div 2 # 0 THEN length \div 2 ELSE 1))

resolve_targets(word, suffix_arg, prefix_arg, split_index) ==
    LET normalized_word == normalize_for_match(word)
        suffix == IF suffix_arg # <<>> THEN normalize_for_match(suffix_arg) ELSE <<>>
        prefix == IF prefix_arg # <<>> THEN normalize_for_match(prefix_arg) ELSE <<>>
        length == Len(normalized_word)
    IN  IF suffix # <<>> /\ prefix # <<>> THEN Resolved(suffix, prefix)
        ELSE IF normalized_word = <<>> THEN Raised("Provide --word")
        ELSE IF length < 2 THEN Raised("at least two letters")
        ELSE IF split_index # <<>> /\ ~SplitInRange(split_index[1], length)
        THEN Raised("--split-index must fall between")
        ELSE LET split_idx == IF split_index = <<>> THEN DefaultSplit(length)
                              ELSE split_index[1]
                 resolved_suffix == IF suffix # <<>> THEN suffix
                                    ELSE SliceTo(normalized_word, split_idx)
                 resolved_prefix == IF prefix # <<>> THEN prefix
                                    ELSE SliceFrom(normalized_word, split_idx)
             IN  IF resolved_suffix = <<>> \/ resolved_prefix = <<>>
                 THEN Raised("must be non-empty")
                 ELSE Resolved(resolved_suffix, resolved_prefix)

ArgWords == StringsUpTo(PointedAlphabet, MaxWordLen)
ArgFragments == StringsUpTo(PointedAlphabet, MaxFragLen)
ArgSplits == {<<>>} \cup {<<n>> : n \in (0 - 1)..(MaxWordLen + 1)}

\* what load_words finds: g_word_utf8 and the book of every word node
WordTexts == StringsUpTo(PointedAlphabet \cup {Maqaf}, MaxTokLen)
Books == {"Genesis", "Exodus"}
WordCorpora == UNION {[1..n -> [text : WordTexts, book : Books]] : n \in 0..MaxLoadN}
\* --book: "" when not given; "Ruth" is no book of the data
BookArgs == {"", "Genesis", "Ruth"}

\* main: resolve_targets, and SystemExit on its ValueError
MainResolve ==
    /\ pc = "main"
    /\ LET r == resolve_targets(args.word, args.suffix, args.prefix, args.split_index)
       IN  IF r.raised
           THEN pc' = "SystemExit" /\ UNCHANGED <<suffix_target, prefix_target>>
           ELSE /\ suffix_target' = r.suffix
                /\ prefix_target' = r.prefix
                /\ pc' = "load_words"
    /\ UNCHANGED <<cons, words, books, loaded, idx, matches, stats, book_stats,
                   probe, args>>

\* load_words: every word's text through strip_diacritics, with its book
LoadWords ==
    /\ pc = "load_words"
    /\ \E raw \in WordCorpora :
          /\ words' = [i \in 1..Len(raw) |-> strip_diacritics(raw[i].text)]
          /\ books' = [i \in 1..Len(raw) |-> raw[i].book]
    /\ loaded' = TRUE
    /\ pc' = "overall_stats"
    /\ UNCHANGED <<cons, suffix_target, prefix_target, idx, matches, stats,
                   book_stats, probe, args>>

\* load_words: the data directory is missing or does not load
LoadWordsFails ==
    /\ pc = "load_words"
    /\ pc' = "SystemExit"
    /\ UNCHANGED <<cons, words, books, loaded, suffix_target, prefix_target, idx,
                   matches, stats, book_stats, probe, args>>

MainOverallStats ==
    /\ pc = "overall_stats"
    /\ stats' = <<compute_pattern_stats("BHSA (all books)", words,
                                        suffix_target, prefix_target)>>
    /\ pc' = "book_stats"
    /\ UNCHANGED <<cons, words, books, loaded, suffix_target, prefix_target, idx,
                   matches, book_stats, probe, args>>

RECURSIVE BookWords(_, _, _)
\* [word for word in words if word.book == book_scope], the texts
BookWords(texts, bks, book_scope) ==
    IF texts = <<>> THEN <<>>
    ELSE IF Head(bks) = book_scope
    THEN <<Head(texts)>> \o BookWords(Tail(texts), Tail(bks), book_scope)
    ELSE BookWords(Tail(texts), Tail(bks), book_scope)

\* the optional book summary, then "return 0"
MainBookStats ==
    /\ pc = "book_stats"
    /\ \E book \in BookArgs, skip_book \in BOOLEAN :
          IF ~skip_book /\ book # ""
          THEN LET book_words == BookWords(words, books, book)
               IN  IF book_words = <<>> THEN UNCHANGED book_stats
                   ELSE book_stats' = <<compute_pattern_stats(book, book_words,
                                            suffix_target, prefix_target)>>
          ELSE UNCHANGED book_stats
    /\ pc' = "done"
    /\ UNCHANGED <<cons, words, books, loaded, suffix_target, prefix_target, idx,
                   matches, stats, probe, args>>

InitMain ==
    /\ args \in [word : ArgWords, suffix : ArgFragments, prefix : ArgFragments,
                 split_index : ArgSplits]
    /\ pc = "main"
    /\ cons = <<>>
    /\ words = <<>>
    /\ books = <<>>
    /\ loaded = FALSE
    /\ suffix_target = <<>>
    /\ prefix_target = <<>>
    /\ idx = 0
    /\ matches = <<>>
    /\ stats = <<>>
    /\ book_stats = <<>>
    /\ probe = <<>>

NextMain ==
    \/ MainResolve
    \/ LoadWords
    \/ LoadWordsFails
    \/ MainOverallStats
    \/ MainBookStats

SpecMain == InitMain /\ [][NextMain]_vars

\* ============================================================== properties
\* What the claims speak of, written from their words and not from the loops.
RECURSIVE ConcatNorm(_, _, _)
\* the normalised texts of the tokens at Python indices lo..hi, joined
ConcatNorm(c, lo, hi) ==
    IF lo > hi THEN <<>>
    ELSE normalize_for_match(c[lo + 1]) \o ConcatNorm(c, lo + 1, hi)

Begins(text, target) ==
    /\ Len(target) <= Len(text)
    /\ \A i \in 1..Len(target) : text[i] = target[i]

\* tokens s..s+k exist and their joined text begins with the target
Covers(c, s, k, target) ==
    /\ s + k <= Len(c) - 1
    /\ Begins(ConcatNorm(c, s, s + k), target)

LeastCover(c, s, k, target) ==
    /\ Covers(c, s, k, target)
    /\ \A j \in 0..(k - 1) : ~Covers(c, s, j, target)

\* nodes is the run of the nodes at indices s..s+k, k least
IsMinimalSpan(c, s, nodes, target) ==
    /\ nodes # <<>>
    /\ LeastCover(c, s, Len(nodes) - 1, target)
    /\ \A n \in 1..Len(nodes) : nodes[n] = s + n

Scanned == pc \in {"compute_pattern_stats", "done", "probed"}
HasStats == stats # <<>>
Probed == probe # <<>>

\* C1: with a non-empty prefix target, every span the matcher reports (in a
\* match of the scanner, in a direct call, and as a true flag of the per-start
\* loop of _prefix_flags) is the run start..start+k with k the least value for
\* which the joined normalised texts begin with the target.
C1_MinimalSpan ==
    /\ \A m \in 1..Len(matches) :
          IsMinimalSpan(cons, matches[m].first[1], matches[m].second, prefix_target)
    /\ (Probed /\ prefix_target # <<>>) =>
          LET p == probe[1] IN
          /\ p.span.found => IsMinimalSpan(cons, p.start, p.span.nodes, prefix_target)
          /\ p.attempt.flag =>
                \E k \in 0..total_words :
                    /\ LeastCover(cons, p.start, k, prefix_target)
                    /\ p.attempt.reads = p.start..(p.start + k)

C1_Witness ==
    /\ Probed
    /\ probe[1].span.found
    /\ Len(probe[1].span.nodes) = 3
    /\ probe[1].attempt.flag
    /\ \E m \in 1..Len(matches) : Len(matches[m].second) = 2

Ends(text, target) ==
    /\ Len(target) <= Len(text)
    /\ \A j \in 1..Len(target) : text[Len(text) - Len(target) + j] = target[j]

\* token i ends with the suffix target, or the suffix target is empty
SuffixHolds(i) ==
    suffix_target = <<>> \/ Ends(normalize_for_match(cons[i + 1]), suffix_target)

MatchesOf(i) == {m \in DOMAIN matches : matches[m].first = <<i + 1>>}

SpanFrom(i) == second_span_nodes(cons, i + 1, prefix_target)

Qualifies(i) ==
    /\ i \in 0..(total_words - 2)
    /\ SuffixHolds(i)
    /\ SpanFrom(i).found

Examined(i) == IF pc = "collect_matches" THEN i < idx ELSE TRUE

\* C3: the scanner emits exactly one match for each index i in 0..N-2 whose
\* token ends with the suffix target (or the target is empty) and from whose
\* successor the matcher succeeds, and no other; the first span is the single
\* token i, the second span starts at token i+1, and the matches are in
\* strictly increasing order of i.
C3_ExactMatches ==
    /\ \A i \in 0..(total_words - 1) :
          (Qualifies(i) /\ Examined(i)) => Cardinality(MatchesOf(i)) = 1
    /\ \A m \in DOMAIN matches :
          LET i == matches[m].first[1] - 1 IN
          /\ Len(matches[m].first) = 1
          /\ Qualifies(i)
          /\ Examined(i)
          /\ matches[m].second = SpanFrom(i).nodes
          /\ matches[m].second[1] = i + 2
    /\ \A m1, m2 \in DOMAIN matches :
          m1 < m2 => matches[m1].first[1] < matches[m2].first[1]

C3_Witness ==
    /\ Scanned
    /\ suffix_target # <<>>
    /\ Len(matches) = 2
    /\ Len(matches[1].second) = 2

SFlag(i) == _suffix_flags(words, suffix_target)[i + 1]
PFlag(s) == _prefix_flags(words, prefix_target)[s + 1]

\* C4: on a non-empty scope observed_adjacent is the number of indices i in
\* 0..N-2 with the suffix flag of i and the prefix flag of i+1 both true, so
\* 0 <= observed_adjacent <= N-1, and expected_adjacent >= 0.
C4_ObservedCount ==
    (HasStats /\ Len(words) >= 1) =>
        LET st == stats[1]
            N == Len(words)
        IN  /\ st.total_words = N
            /\ st.observed_adjacent =
                   Cardinality({i \in 0..(N - 2) : SFlag(i) /\ PFlag(i + 1)})
            /\ 0 <= st.observed_adjacent
            /\ st.observed_adjacent <= N - 1
            /\ st.expected_adjacent.num >= 0
            /\ st.expected_adjacent.den > 0

C4_Witness ==
    /\ HasStats
    /\ Len(words) = 3
    /\ stats[1].observed_adjacent = 1
    /\ SFlag(1) /\ PFlag(2)
    /\ prefix_target # <<>>
    /\ suffix_target # <<>>

\* N >= 1 identical tokens, every one of them with both flags true
Uniform ==
    /\ Len(words) >= 1
    /\ \A i \in 1..Len(words) : words[i] = words[1]
    /\ \A i \in 0..(Len(words) - 1) : SFlag(i) /\ PFlag(i)

IsOne(r) == ~r.inf /\ r.num = r.den /\ r.den # 0

\* C5 as claimed: for every N >= 1 the uniform corpus gives observed N-1,
\* expected N-1 and ratio 1.0.
C5_UniformAnyN ==
    (HasStats /\ Uniform) =>
        /\ stats[1].observed_adjacent = Len(words) - 1
        /\ RatEq(stats[1].expected_adjacent, Rat(Len(words) - 1, 1))
        /\ IsOne(stats[1].ratio)

\* C5 amended: for every N >= 1 the uniform corpus gives observed N-1 and
\* expected N-1; the ratio is 1.0 for N >= 2 and the +infinity sentinel for
\* N = 1 (expected is 0.0 there).
C5_UniformRatio ==
    (HasStats /\ Uniform) =>
        /\ stats[1].observed_adjacent = Len(words) - 1
        /\ RatEq(stats[1].expected_adjacent, Rat(Len(words) - 1, 1))
        /\ Len(words) >= 2 => IsOne(stats[1].ratio)
        /\ Len(words) = 1 => stats[1].ratio = Infinity

C5_Witness == HasStats /\ Uniform /\ Len(words) = 3 /\ prefix_target # <<>>

\* C7: on an empty scope compute_pattern_stats returns, whatever the targets,
\* all counts 0, expected 0.0, ratio the +infinity sentinel and p-value 1.0.
C7_EmptyScope ==
    (HasStats /\ Len(words) = 0) =>
        /\ stats[1].total_words = 0
        /\ stats[1].suffix_count = 0
        /\ stats[1].prefix_count = 0
        /\ stats[1].observed_adjacent = 0
        /\ stats[1].expected_adjacent = Rat(0, 1)
        /\ stats[1].ratio = Infinity
        /\ stats[1].p_value = "1.0"

C7_Witness ==
    /\ HasStats
    /\ Len(words) = 0
    /\ suffix_target # <<>>
    /\ Len(prefix_target) = 2

ProperPrefix(text, target) ==
    /\ Len(text) < Len(target)
    /\ \A i \in 1..Len(text) : text[i] = target[i]

EmptyAt(c, j) == normalize_for_match(c[j + 1]) = <<>>

\* every token from s to the end is non-empty and their joined text is a
\* proper prefix of the target: the target would need a successor token
RunsOffTheEnd(c, s, target) ==
    /\ target # <<>>
    /\ \A j \in s..(Len(c) - 1) : ~EmptyAt(c, j)
    /\ ProperPrefix(ConcatNorm(c, s, Len(c) - 1), target)

\* C8: from every start index 0..N the matcher neither raises nor reads a
\* token index >= N; when the tokens from the start to the end are all consumed
\* as proper prefixes and the target is still not covered it reports no match,
\* having read exactly the tokens start..N-1.
C8_CleanExhaustion ==
    /\ pc # "IndexError"
    /\ Probed =>
          LET p == probe[1] IN
          /\ ~p.span.raised
          /\ ~p.attempt.raised
          /\ p.span.reads \subseteq 0..(total_words - 1)
          /\ p.attempt.reads \subseteq 0..(total_words - 1)
          /\ RunsOffTheEnd(cons, p.start, prefix_target) =>
                /\ ~p.span.found
                /\ ~p.attempt.flag
                /\ p.span.reads = p.start..(total_words - 1)
                /\ p.attempt.reads = p.start..(total_words - 1)

C8_Witness ==
    /\ Probed
    /\ total_words = 3
    /\ probe[1].start = 1
    /\ RunsOffTheEnd(cons, 1, prefix_target)

\* the tokens from s up to, not including, the first empty one
FirstEmptyFrom(c, s) ==
    IF \E e \in s..(Len(c) - 1) : EmptyAt(c, e)
    THEN CHOOSE e \in s..(Len(c) - 1) :
            EmptyAt(c, e) /\ \A d \in s..(e - 1) : ~EmptyAt(c, d)
    ELSE Len(c)

View(c, s) == SubSeq(c, s + 1, FirstEmptyFrom(c, s))

SpanInView(s) == second_span_nodes(View(cons, s), 0, prefix_target)
FlagInView(s) == prefix_attempt(NormalizedTexts(View(cons, s)), 0, prefix_target).flag

StopsAtEmpty(reads, found) ==
    \A j \in reads : EmptyAt(cons, j) => (~found /\ \A r \in reads : r <= j)

\* C9: with a non-empty target, an attempt that meets a token with empty
\* normalised text fails there and reads nothing past it; every attempt, in a
\* direct call, in the scanner and in the flag vector, is decided as it is on
\* the tokens from its start up to the first empty one, so the attempts from
\* later start indices are all made and are not affected.
C9_EmptyTokenLocal ==
    prefix_target # <<>> =>
        /\ Probed =>
              LET p == probe[1] IN
              /\ StopsAtEmpty(p.span.reads, p.span.found)
              /\ StopsAtEmpty(p.attempt.reads, p.attempt.flag)
              /\ p.span.found = SpanInView(p.start).found
              /\ p.attempt.flag = FlagInView(p.start)
        /\ HasStats =>
              stats[1].prefix_count =
                  Cardinality({s \in 0..(total_words - 1) : FlagInView(s)})
        /\ Scanned =>
              \A i \in 0..(total_words - 2) :
                  (MatchesOf(i) # {}) <=> (SuffixHolds(i) /\ SpanInView(i + 1).found)

C9_Witness ==
    /\ prefix_target # <<>>
    /\ Probed
    /\ total_words = 3
    /\ cons[2] = <<Mark>>
    /\ probe[1].start = 0
    /\ probe[1].span.reads = {0, 1}
    /\ probe[1].attempt.reads = {0, 1}
    /\ stats[1].prefix_count = 1

\* C10: on the same normalised token texts and with a non-empty prefix
\* target, observed_adjacent equals the number of matches the scanner emits,
\* and the per-start loop of _prefix_flags flags a start index exactly when
\* second_span_nodes returns a span from it.
C10_ScannerStatsAgree ==
    (prefix_target # <<>> /\ words = NormalizedTexts(cons)) =>
        /\ HasStats => stats[1].observed_adjacent = Len(matches)
        /\ Probed => probe[1].attempt.flag = probe[1].span.found

C10_Witness ==
    /\ prefix_target # <<>>
    /\ HasStats
    /\ Probed
    /\ Len(matches) = 2
    /\ stats[1].observed_adjacent = 2
    /\ probe[1].span.found
    /\ Len(probe[1].span.nodes) = 2

\* ---- pattern resolution (SpecMain)
ArgWord == normalize_for_match(args.word)
ArgSuffix == normalize_for_match(args.suffix)
ArgPrefix == normalize_for_match(args.prefix)
SplitGiven == args.split_index # <<>>
SplitOutside == SplitGiven /\ args.split_index[1] \notin 1..(Len(ArgWord) - 1)
CompletePair == ArgSuffix # <<>> /\ ArgPrefix # <<>>
NothingLoaded == ~loaded /\ words = <<>> /\ stats = <<>> /\ book_stats = <<>>
Resolving == pc = "main"

\* C6 as claimed: resolution fails, and nothing is loaded or scanned, whenever
\* a split index outside [1, len(word)-1] is supplied or neither a word nor a
\* complete fragment pair is supplied; no pair with an empty fragment is used.
C6_EveryBadSplitRaises ==
    ~Resolving =>
        /\ ((SplitOutside /\ Len(ArgWord) >= 2) \/ (ArgWord = <<>> /\ ~CompletePair)) =>
              (pc = "SystemExit" /\ NothingLoaded)
        /\ pc # "SystemExit" => (suffix_target # <<>> /\ prefix_target # <<>>)

\* C6 amended: when both fragments are supplied and non-empty after
\* normalisation they are returned as they are and the word and the split
\* index are not looked at; otherwise resolution fails, and nothing is loaded
\* or scanned, whenever the normalised word is empty or a supplied split index
\* is outside [1, len(normalised word)-1]; no pair with an empty fragment is
\* ever used.
C6_FailFast ==
    ~Resolving =>
        /\ (~CompletePair /\ (SplitOutside \/ ArgWord = <<>>)) =>
              (pc = "SystemExit" /\ NothingLoaded)
        /\ CompletePair =>
              (pc # "SystemExit" =>
                  (suffix_target = ArgSuffix /\ prefix_target = ArgPrefix))
        /\ pc # "SystemExit" => (suffix_target # <<>> /\ prefix_target # <<>>)
        /\ pc = "SystemExit" => (stats = <<>> /\ book_stats = <<>>)

C6_Witness ==
    /\ pc = "SystemExit"
    /\ NothingLoaded
    /\ Len(ArgWord) = 3
    /\ args.split_index = <<0 - 1>>
    /\ ArgSuffix # <<>>
    /\ ArgPrefix = <<>>

\* ---- completeness of the greedy matcher (Spec)
\* some run of existing, non-empty tokens from s begins with the target
SomeCover(c, s, target) ==
    \E k \in 0..(Len(c) - 1 - s) :
        /\ \A j \in s..(s + k) : ~EmptyAt(c, j)
        /\ Covers(c, s, k, target)

\* C11: with a non-empty prefix target, whenever some k exists such that the
\* tokens start..start+k all exist, have non-empty normalised text and their
\* joined text begins with the target, the matcher reports success: in a
\* direct call from any start, in the per-start loop of _prefix_flags, in the
\* flag count and in the scanner's matches.
C11_GreedyComplete ==
    prefix_target # <<>> =>
        /\ Probed =>
              (SomeCover(cons, probe[1].start, prefix_target) =>
                  (probe[1].span.found /\ probe[1].attempt.flag))
        /\ HasStats =>
              stats[1].prefix_count >=
                  Cardinality({s \in 0..(total_words - 1) :
                                  SomeCover(cons, s, prefix_target)})
        /\ Scanned =>
              \A i \in 0..(total_words - 2) :
                  (SuffixHolds(i) /\ SomeCover(cons, i + 1, prefix_target)) =>
                      MatchesOf(i) # {}

C11_Witness ==
    /\ Len(prefix_target) = 3
    /\ Probed
    /\ probe[1].start = 0
    /\ SomeCover(cons, 0, prefix_target)
    /\ ~Covers(cons, 0, 0, prefix_target)
    /\ ~Covers(cons, 0, 1, prefix_target)
    /\ Len(cons[3]) = 2
    /\ MatchesOf(0) # {}

\* ---- ratio and p-value of a returned record (Spec)
IsPositive(x) == x.num * x.den > 0
IsZero(x) == x.num = 0

\* C12: in every record compute_pattern_stats returns, observed_adjacent > 0
\* implies expected_adjacent > 0; so the ratio is the +infinity sentinel only
\* when observed_adjacent is 0, the p-value is never the 0.0 of the special
\* case "expected <= 0 and observed > 0", and it is 1.0 whenever
\* expected_adjacent is 0.
C12_ObservedNeedsExpected ==
    HasStats =>
        LET st == stats[1] IN
        /\ st.observed_adjacent > 0 => IsPositive(st.expected_adjacent)
        /\ st.ratio.inf => st.observed_adjacent = 0
        /\ st.ratio.inf <=> IsZero(st.expected_adjacent)
        /\ st.p_value # "0.0"
        /\ IsZero(st.expected_adjacent) => st.p_value = "1.0"

C12_Witness ==
    /\ HasStats
    /\ stats[1].total_words = 2
    /\ stats[1].observed_adjacent = 1
    /\ ~stats[1].ratio.inf
    /\ stats[1].p_value = "tail"

====
